---- MODULE Spec2Model ----
(***************************************************************************)
(* The contacts backend: the users table, the JWT issuer and verifier of   *)
(* src/services/auth.py, the request handlers of src/routes/auth.py, and  *)
(* the contacts table with the routes of src/routes/contacts.py.          *)
(*                                                                         *)
(* A token is the pair (claims, signing key): jose's HS256 encoding is a  *)
(* deterministic function of the claims, whose iat and exp are whole      *)
(* seconds, so two tokens with equal claims are the same string.          *)
(* Time is the wall clock in seconds.                                      *)
(***************************************************************************)
EXTENDS Integers, Sequences, FiniteSets, TLC

VARIABLES users, now, ticks, issued, tasks, resp, reqno, inflight, contacts

vars == <<users, now, ticks, issued, tasks, resp, reqno, inflight, contacts>>

\* ------------------------------------------------------------------ bounds
MaxTicks == 1
MaxContacts == 2

\* --------------------------------------------------------------- constants
None == [none |-> TRUE]

SECRET == "SECRET"
FORGED_KEY == "not-the-secret"

ACCESS_TTL == 15 * 60
REFRESH_TTL == 7 * 24 * 60 * 60
EMAIL_TTL == 7 * 24 * 60 * 60

USERNAME_MIN == 5
USERNAME_MAX == 16
PASSWORD_MIN == 6
PASSWORD_MAX == 10

Emails == {"a@x.com", "b@x.com"}
Username == "user1"
ShortUsername == "bob"
Passwords == {"secret1", "secret2"}
ShortPassword == "short"
\* the password each address registers with (the other one is a wrong password)
PasswordOf(email) == IF email = "a@x.com" THEN "secret1" ELSE "secret2"
Salts == {"salt"}
\* the clock moves by a second, or to just past the longest token lifetime
Deltas == {1, REFRESH_TTL + 1}

\* ------------------------------------------------------------ PasswordHasher
\* passlib bcrypt: a salted digest; verify recomputes the digest with the
\* stored salt.
Digest(salt, plain_password) == <<salt, plain_password>>

hash_password(plain_password, salt) ==
    [scheme |-> "bcrypt", salt |-> salt, digest |-> Digest(salt, plain_password)]

verify_password(plain_password, hashed_password) ==
    hashed_password.digest = Digest(hashed_password.salt, plain_password)

\* ---------------------------------------------------------------- TokenCodec
jwt_encode(claims, key) == [claims |-> claims, key |-> key]

\* jose: signature first, then exp (expired when exp < now).
jwt_decode(token, key, t) ==
    IF token.key # key THEN [ok |-> FALSE, error |-> "JWTError"]
    ELSE IF "exp" \in DOMAIN token.claims /\ token.claims.exp < t
         THEN [ok |-> FALSE, error |-> "ExpiredSignatureError"]
         ELSE [ok |-> TRUE, payload |-> token.claims]

\* --------------------------------------------------------------- TokenIssuer
\* expires_delta is Optional[float]: None or a number of seconds; the code
\* tests its truthiness, which None and zero both fail. The two readings of
\* the clock (expire, iat) fall in the same second t.
Seconds(n) == [seconds |-> n]
Truthy(expires_delta) == expires_delta # None /\ expires_delta.seconds # 0

create_access_token(data, expires_delta, t) ==
    LET expire == IF Truthy(expires_delta) THEN t + expires_delta.seconds
                  ELSE t + ACCESS_TTL
    IN jwt_encode([iat |-> t, exp |-> expire, scope |-> "access_token"] @@ data, SECRET)

create_refresh_token(data, expires_delta, t) ==
    LET expire == IF Truthy(expires_delta) THEN t + expires_delta.seconds
                  ELSE t + REFRESH_TTL
    IN jwt_encode([iat |-> t, exp |-> expire, scope |-> "refresh_token"] @@ data, SECRET)

\* no scope claim
create_email_token(data, t) ==
    jwt_encode([iat |-> t, exp |-> t + EMAIL_TTL] @@ data, SECRET)

HasScopeClaim(token) == "scope" \in DOMAIN token.claims

\* ------------------------------------------------------------- HTTP results
Result(db, status, detail) ==
    [db |-> db, status |-> status, detail |-> detail,
     access_token |-> None, refresh_token |-> None, user |-> None,
     message |-> "", task |-> None, returned |-> None]

\* an exception no handler catches
ServerError(db, exc) == Result(db, 500, exc)

\* -------------------------------------------------------------- UserDirectory
get_user_by_email(email, db) ==
    LET hits == {i \in 1..Len(db) : db[i].email = email}
    IN IF hits = {} THEN None
       ELSE db[CHOOSE i \in hits : \A j \in hits : i <= j]

\* body: [username, email, password]; the new row takes the column defaults.
NewUser(body, db) ==
    [id |-> Len(db) + 1, username |-> body.username, email |-> body.email,
     password |-> body.password, confirmed |-> FALSE, refresh_token |-> None]

\* users.email without the unique constraint: every INSERT succeeds
create_user_nonunique(body, db) ==
    [ok |-> TRUE, db |-> Append(db, NewUser(body, db)), user |-> NewUser(body, db)]

\* the unique constraint on users.email fails the INSERT
create_user(body, db) ==
    IF \E i \in 1..Len(db) : db[i].email = body.email
    THEN [ok |-> FALSE, db |-> db, user |-> None]
    ELSE [ok |-> TRUE, db |-> Append(db, NewUser(body, db)), user |-> NewUser(body, db)]

\* update_token as an UPDATE with no condition on the row
update_token_all(user, token, db) ==
    [i \in 1..Len(db) |-> [db[i] EXCEPT !.refresh_token = token]]

\* user is the row as the session loaded it; the flush emits an UPDATE only
\* when the attribute differs from the loaded value.
update_token(user, token, db) ==
    IF user.refresh_token = token THEN db
    ELSE [db EXCEPT ![user.id].refresh_token = token]

\* a confirmation that is not written
repo_confirmed_email_lost(email, db) == db

repo_confirmed_email(email, db) ==
    LET user == get_user_by_email(email, db)
    IN [db EXCEPT ![user.id].confirmed = TRUE]

\* ------------------------------------------------------- token verification
Unauthorized(db, detail) == Result(db, 401, detail)

\* payload['scope'] on a payload without a scope claim raises KeyError, which
\* the except JWTError clause does not catch.
decode_refresh_token(token, t) ==
    LET d == jwt_decode(token, SECRET, t)
    IN IF ~d.ok
       THEN [ok |-> FALSE, status |-> 401, detail |-> "Could not validate credentials"]
       ELSE IF "scope" \notin DOMAIN d.payload
            THEN [ok |-> FALSE, status |-> 500, detail |-> "KeyError"]
            ELSE IF d.payload.scope = "refresh_token"
                 THEN [ok |-> TRUE, email |-> d.payload.sub]
                 ELSE [ok |-> FALSE, status |-> 401, detail |-> "Invalid scope for token"]

\* get_current_user that clears the subject's stored token on a wrong scope
get_current_user_revoking(token, db, t) ==
    LET credentials_exception == Unauthorized(db, "Could not validate credentials")
        d == jwt_decode(token, SECRET, t)
    IN IF ~d.ok THEN credentials_exception
       ELSE IF "scope" \notin DOMAIN d.payload THEN ServerError(db, "KeyError")
       ELSE IF d.payload.scope # "access_token"
            THEN LET user == get_user_by_email(d.payload.sub, db)
                 IN IF user = None THEN credentials_exception
                    ELSE Unauthorized(update_token(user, None, db),
                                      "Could not validate credentials")
       ELSE LET user == get_user_by_email(d.payload.sub, db)
            IN IF user = None THEN credentials_exception
               ELSE [Result(db, 200, "") EXCEPT !.user = user]

\* get_current_user that also requires the user to hold a stored refresh token
get_current_user_session(token, db, t) ==
    LET credentials_exception == Unauthorized(db, "Could not validate credentials")
        d == jwt_decode(token, SECRET, t)
    IN IF ~d.ok THEN credentials_exception
       ELSE IF "scope" \notin DOMAIN d.payload THEN ServerError(db, "KeyError")
       ELSE IF d.payload.scope # "access_token" THEN credentials_exception
       ELSE LET user == get_user_by_email(d.payload.sub, db)
            IN IF user = None \/ user.refresh_token = None THEN credentials_exception
               ELSE [Result(db, 200, "") EXCEPT !.user = user]

get_current_user(token, db, t) ==
    LET credentials_exception == Unauthorized(db, "Could not validate credentials")
        d == jwt_decode(token, SECRET, t)
    IN IF ~d.ok THEN credentials_exception
       ELSE IF "scope" \notin DOMAIN d.payload THEN ServerError(db, "KeyError")
       ELSE IF d.payload.scope # "access_token" THEN credentials_exception
       ELSE LET user == get_user_by_email(d.payload.sub, db)
            IN IF user = None THEN credentials_exception
               ELSE [Result(db, 200, "") EXCEPT !.user = user]

get_email_from_token(token, t) ==
    LET d == jwt_decode(token, SECRET, t)
    IN IF ~d.ok
       THEN [ok |-> FALSE, status |-> 422, detail |-> "Invalid token for email verification"]
       ELSE [ok |-> TRUE, email |-> d.payload.sub]

\* ------------------------------------------------------------------ handlers
\* pydantic's UserModel: username 5..16 characters, password 6..10.
ValidUserModel(body) ==
    /\ Len(body.username) >= USERNAME_MIN /\ Len(body.username) <= USERNAME_MAX
    /\ Len(body.password) >= PASSWORD_MIN /\ Len(body.password) <= PASSWORD_MAX

\* a body that fails the model's validation never reaches the handler
RequestValidationError(db) == Result(db, 422, "validation error")

\* signup without the lookup of an existing account
signup_unchecked(body, db, salt) ==
    LET hashed == [body EXCEPT !.password = hash_password(body.password, salt)]
        created == create_user(hashed, db)
    IN IF ~created.ok THEN ServerError(db, "IntegrityError")
       ELSE [Result(created.db, 201,
                "User successfully created. Check your email for confirmation.")
             EXCEPT !.user = created.user,
                    !.task = [email |-> created.user.email,
                              username |-> created.user.username]]

signup(body, db, salt) ==
    IF get_user_by_email(body.email, db) # None
    THEN Result(db, 409, "Account already exists")
    ELSE LET hashed == [body EXCEPT !.password = hash_password(body.password, salt)]
             created == create_user(hashed, db)
         IN IF ~created.ok THEN ServerError(db, "IntegrityError")
            ELSE [Result(created.db, 201,
                     "User successfully created. Check your email for confirmation.")
                  EXCEPT !.user = created.user,
                         !.task = [email |-> created.user.email,
                                   username |-> created.user.username]]

\* login without the confirmed check
login_unconfirmed(form, db, t) ==
    LET user == get_user_by_email(form.username, db)
    IN IF user = None THEN Unauthorized(db, "Invalid email")
       ELSE IF ~verify_password(form.password, user.password)
            THEN Unauthorized(db, "Invalid password")
            ELSE LET access == create_access_token([sub |-> user.email], None, t)
                     refresh == create_refresh_token([sub |-> user.email], None, t)
                 IN [Result(update_token(user, refresh, db), 200, "")
                     EXCEPT !.access_token = access, !.refresh_token = refresh]

\* login without the password check
login_any_password(form, db, t) ==
    LET user == get_user_by_email(form.username, db)
    IN IF user = None THEN Unauthorized(db, "Invalid email")
       ELSE IF ~user.confirmed THEN Unauthorized(db, "Email not confirmed")
            ELSE LET access == create_access_token([sub |-> user.email], None, t)
                     refresh == create_refresh_token([sub |-> user.email], None, t)
                 IN [Result(update_token(user, refresh, db), 200, "")
                     EXCEPT !.access_token = access, !.refresh_token = refresh]

\* form: [username, password], the username being the e-mail address
login(form, db, t) ==
    LET user == get_user_by_email(form.username, db)
    IN IF user = None THEN Unauthorized(db, "Invalid email")
       ELSE IF ~user.confirmed THEN Unauthorized(db, "Email not confirmed")
       ELSE IF ~verify_password(form.password, user.password)
            THEN Unauthorized(db, "Invalid password")
            ELSE LET access == create_access_token([sub |-> user.email], None, t)
                     refresh == create_refresh_token([sub |-> user.email], None, t)
                 IN [Result(update_token(user, refresh, db), 200, "")
                     EXCEPT !.access_token = access, !.refresh_token = refresh]

\* a mismatch that is refused without clearing the stored token
rotate_keep(user, token, email, db, t) ==
    IF user = None THEN ServerError(db, "AttributeError")
    ELSE IF user.refresh_token # token
         THEN Unauthorized(db, "Invalid refresh token")
         ELSE LET access == create_access_token([sub |-> email], None, t)
                  refresh == create_refresh_token([sub |-> email], None, t)
              IN [Result(update_token(user, refresh, db), 200, "")
                  EXCEPT !.access_token = access, !.refresh_token = refresh]

\* the part of refresh_token after the user row is loaded
rotate(user, token, email, db, t) ==
    IF user = None THEN ServerError(db, "AttributeError")
    ELSE IF user.refresh_token # token
         THEN Unauthorized(update_token(user, None, db), "Invalid refresh token")
         ELSE LET access == create_access_token([sub |-> email], None, t)
                  refresh == create_refresh_token([sub |-> email], None, t)
              IN [Result(update_token(user, refresh, db), 200, "")
                  EXCEPT !.access_token = access, !.refresh_token = refresh]

refresh_token(token, db, t) ==
    LET d == decode_refresh_token(token, t)
    IN IF ~d.ok THEN Result(db, d.status, d.detail)
       ELSE rotate(get_user_by_email(d.email, db), token, d.email, db, t)

\* confirmed_email without the branch for a user who is already confirmed
confirmed_email_again(token, db, t) ==
    LET d == get_email_from_token(token, t)
    IN IF ~d.ok THEN Result(db, d.status, d.detail)
       ELSE LET user == get_user_by_email(d.email, db)
            IN IF user = None THEN Result(db, 400, "Verification error")
               ELSE [Result(repo_confirmed_email(d.email, db), 200, "")
                     EXCEPT !.message = "Email confirmed"]

confirmed_email(token, db, t) ==
    LET d == get_email_from_token(token, t)
    IN IF ~d.ok THEN Result(db, d.status, d.detail)
       ELSE LET user == get_user_by_email(d.email, db)
            IN IF user = None THEN Result(db, 400, "Verification error")
               ELSE IF user.confirmed
                    THEN [Result(db, 200, "") EXCEPT
                              !.message = "Your email is already confirmed"]
                    ELSE [Result(repo_confirmed_email(d.email, db), 200, "") EXCEPT
                              !.message = "Email confirmed"]

read_users_me(token, db, t) == get_current_user(token, db, t)

\* ------------------------------------------------------------------ requests
Bodies ==
    {[username |-> Username, email |-> e, password |-> PasswordOf(e)] : e \in Emails}
    \cup [username : {Username}, email : Emails, password : {ShortPassword}]
    \cup {[username |-> ShortUsername, email |-> e, password |-> PasswordOf(e)] : e \in Emails}
Forms == [username : Emails, password : Passwords]

\* a token signed with another key
ForgedTokens ==
    {jwt_encode([sub |-> "a@x.com", iat |-> 0, exp |-> 100 * REFRESH_TTL,
                 scope |-> "access_token"], FORGED_KEY)}

\* what a client can present: a token the system handed out, or a forgery
Presentable == issued \cup ForgedTokens

Procs == {1, 2}
Idle == [pc |-> "idle", token |-> None, email |-> "", user |-> None, result |-> None,
         body |-> None]

Response(op, arg, r, t) ==
    [op |-> op, arg |-> arg, at |-> t, status |-> r.status, detail |-> r.detail,
     access_token |-> r.access_token, refresh_token |-> r.refresh_token,
     user |-> r.user, message |-> r.message, returned |-> r.returned]

Handed(r) == {r.access_token, r.refresh_token} \ {None}

\* the contacts table: its rows and the last id the sequence handed out
NoContacts == [rows |-> {}, last_id |-> 0]

Init ==
    /\ users = <<>>
    /\ now = 0
    /\ ticks = 0
    /\ issued = {}
    /\ tasks = {}
    /\ resp = Response("none", None, Result(<<>>, 0, ""), 0)
    /\ reqno = 0
    /\ inflight = [p \in Procs |-> Idle]
    /\ contacts = NoContacts

Answer(op, arg, r) ==
    /\ users' = r.db
    /\ resp' = Response(op, arg, r, now)
    /\ reqno' = 1 - reqno
    /\ issued' = issued \cup Handed(r)
    /\ UNCHANGED <<now, ticks, inflight, contacts>>

Signup ==
    \E body \in Bodies, salt \in Salts :
        LET r == IF ValidUserModel(body) THEN signup(body, users, salt)
                 ELSE RequestValidationError(users)
        IN /\ Answer("signup", body, r)
           /\ tasks' = tasks \cup ({r.task} \ {None})

\* send_email without the except clause: a failed delivery leaves the task
\* as an exception
send_email_reraise(task, delivered, t) ==
    [mail |-> IF delivered THEN {create_email_token([sub |-> task.email], t)} ELSE {},
     raised |-> IF delivered THEN None ELSE [exc |-> "ConnectionErrors"]]

\* the background task: the verification token reaches the mailbox only when
\* the delivery succeeds (ConnectionErrors is caught and printed)
send_email(task, delivered, t) ==
    [mail |-> IF delivered THEN {create_email_token([sub |-> task.email], t)} ELSE {},
     raised |-> None]

\* the task runs after the response of signup has been sent
SendEmail ==
    \E task \in tasks, delivered \in BOOLEAN :
        /\ tasks' = tasks \ {task}
        /\ issued' = issued \cup send_email(task, delivered, now).mail
        /\ UNCHANGED <<users, now, ticks, resp, reqno, inflight, contacts>>

Login ==
    \E form \in Forms :
        /\ Answer("login", form, login(form, users, now))
        /\ UNCHANGED tasks

Refresh ==
    \E token \in Presentable :
        /\ Answer("refresh_token", token, refresh_token(token, users, now))
        /\ UNCHANGED tasks

ConfirmedEmail ==
    \E token \in Presentable :
        /\ Answer("confirmed_email", token, confirmed_email(token, users, now))
        /\ UNCHANGED tasks

ReadUsersMe ==
    \E token \in Presentable :
        /\ Answer("read_users_me", token, read_users_me(token, users, now))
        /\ UNCHANGED tasks

Tick ==
    \E d \in Deltas :
        /\ ticks < MaxTicks
        /\ now' = now + d
        /\ ticks' = ticks + 1
        /\ UNCHANGED <<users, issued, tasks, resp, reqno, inflight, contacts>>

Next ==
    \/ Signup
    \/ SendEmail
    \/ Login
    \/ Refresh
    \/ ConfirmedEmail
    \/ ReadUsersMe
    \/ Tick

Spec == Init /\ [][Next]_vars

\* ------------------------------------------- refresh requests in parallel
\* Two workers, each with its own database session, serve one refresh request
\* each. The handler reads the row (SELECT), compares in memory and writes
\* (UPDATE, commit) with no lock and no condition on the stored value.
StoredTokens == {users[i].refresh_token : i \in 1..Len(users)} \ {None}

RefreshBegin(p) ==
    \E token \in StoredTokens :
        LET d == decode_refresh_token(token, now)
        IN /\ inflight[p].pc = "idle"
           \* the workers are alike: worker 1 is the first to take a request
           /\ \A q \in Procs : q < p => inflight[q].pc # "idle"
           /\ \A q \in Procs \ {p} : inflight[q].pc = "idle" \/ inflight[q].token = token
           /\ inflight' = [inflight EXCEPT ![p] =
                  IF d.ok
                  THEN [Idle EXCEPT !.pc = "decoded", !.token = token, !.email = d.email]
                  ELSE [Idle EXCEPT !.pc = "done", !.token = token, !.result =
                           Response("refresh_token", token,
                                    Result(users, d.status, d.detail), now)]]
           /\ UNCHANGED <<users, now, ticks, issued, tasks, resp, reqno, contacts>>

RefreshLoad(p) ==
    /\ inflight[p].pc = "decoded"
    /\ inflight' = [inflight EXCEPT ![p].pc = "loaded",
                       ![p].user = get_user_by_email(inflight[p].email, users)]
    /\ UNCHANGED <<users, now, ticks, issued, tasks, resp, reqno, contacts>>

RefreshCommit(p) ==
    LET me == inflight[p]
        r == rotate(me.user, me.token, me.email, users, now)
    IN /\ me.pc = "loaded"
       /\ users' = r.db
       /\ issued' = issued \cup Handed(r)
       /\ inflight' = [inflight EXCEPT ![p].pc = "done",
                          ![p].result = Response("refresh_token", me.token, r, now)]
       /\ UNCHANGED <<now, ticks, tasks, resp, reqno, contacts>>

NextRace ==
    \/ Signup
    \/ SendEmail
    \/ ConfirmedEmail
    \/ Login
    \/ Tick
    \/ \E p \in Procs : RefreshBegin(p)
    \/ \E p \in Procs : RefreshLoad(p)
    \/ \E p \in Procs : RefreshCommit(p)

SpecRace == Init /\ [][NextRace]_vars

\* -------------------------------------------- signup requests in parallel
\* Two workers serve one signup request each: the handler first looks the
\* email up (SELECT) and, when no row is found, hashes the password and adds
\* the row (INSERT, commit); the other worker's INSERT can land in between.
signup_lookup(body, db) == get_user_by_email(body.email, db)

signup_create(body, db, salt) ==
    LET hashed == [body EXCEPT !.password = hash_password(body.password, salt)]
        created == create_user(hashed, db)
    IN IF ~created.ok THEN ServerError(db, "IntegrityError")
       ELSE [Result(created.db, 201,
                "User successfully created. Check your email for confirmation.")
             EXCEPT !.user = created.user,
                    !.task = [email |-> created.user.email,
                              username |-> created.user.username]]

SignupCheck(p) ==
    \E body \in {b \in Bodies : ValidUserModel(b)} :
        /\ inflight[p].pc = "idle"
        /\ IF signup_lookup(body, users) # None
           THEN /\ Answer("signup", body, Result(users, 409, "Account already exists"))
                /\ UNCHANGED tasks
           ELSE /\ inflight' = [inflight EXCEPT ![p] =
                       [Idle EXCEPT !.pc = "checked", !.body = body]]
                /\ UNCHANGED <<users, now, ticks, issued, tasks, resp, reqno, contacts>>

SignupCreate(p) ==
    \E salt \in Salts :
        LET r == signup_create(inflight[p].body, users, salt)
        IN /\ inflight[p].pc = "checked"
           /\ users' = r.db
           /\ resp' = Response("signup", inflight[p].body, r, now)
           /\ reqno' = 1 - reqno
           /\ tasks' = tasks \cup ({r.task} \ {None})
           /\ inflight' = [inflight EXCEPT ![p] = Idle]
           /\ UNCHANGED <<now, ticks, issued, contacts>>

NextSignupRace ==
    \/ \E p \in Procs : SignupCheck(p)
    \/ \E p \in Procs : SignupCreate(p)
    \/ SendEmail
    \/ ConfirmedEmail
    \/ Tick

SpecSignupRace == Init /\ [][NextSignupRace]_vars

\* ------------------------------------------------- the issuer called alone
\* The handlers never pass expires_delta; the parameter is there for direct
\* calls. Each action calls one function of the service with inputs drawn
\* from small sets and keeps the call and its result as the last response.
ExpiresDeltas == {None, Seconds(0), Seconds(1), Seconds(ACCESS_TTL + 1)}

Returned(op, arg, value) ==
    /\ resp' = [Response(op, arg, Result(users, 200, ""), now) EXCEPT !.returned = value]
    /\ reqno' = 1 - reqno
    /\ UNCHANGED <<users, now, ticks, tasks, inflight, contacts>>

\* a token made by a direct call is not handed to a client
CreateAccessToken ==
    \E email \in Emails, expires_delta \in ExpiresDeltas :
        /\ Returned("create_access_token",
                    [data |-> [sub |-> email], expires_delta |-> expires_delta],
                    create_access_token([sub |-> email], expires_delta, now))
        /\ UNCHANGED issued

CreateRefreshToken ==
    \E email \in Emails, expires_delta \in ExpiresDeltas :
        /\ Returned("create_refresh_token",
                    [data |-> [sub |-> email], expires_delta |-> expires_delta],
                    create_refresh_token([sub |-> email], expires_delta, now))
        /\ UNCHANGED issued

CreateEmailToken ==
    \E email \in Emails :
        /\ Returned("create_email_token",
                    [data |-> [sub |-> email], expires_delta |-> None],
                    create_email_token([sub |-> email], now))
        /\ UNCHANGED issued

\* the token last created is presented to the function that consumes its kind
Decoded(db, d) ==
    IF d.ok THEN Result(db, 200, "") ELSE Result(db, d.status, d.detail)

Consumer(token, db, t) ==
    IF ~HasScopeClaim(token) THEN Decoded(db, get_email_from_token(token, t))
    ELSE IF token.claims.scope = "refresh_token"
         THEN Decoded(db, decode_refresh_token(token, t))
         ELSE get_current_user(token, db, t)

Consume ==
    /\ resp.returned # None
    /\ resp' = [Response("consume", resp.returned,
                         Consumer(resp.returned, users, now), now)
                EXCEPT !.returned = resp.returned]
    /\ reqno' = 1 - reqno
    /\ UNCHANGED <<users, now, ticks, issued, tasks, inflight, contacts>>

NextIssuer ==
    \/ CreateAccessToken
    \/ CreateRefreshToken
    \/ CreateEmailToken
    \/ Consume
    \/ Tick

SpecIssuer == Init /\ [][NextIssuer]_vars

\* ------------------------------------------------------------- the contacts
\* Every route depends on get_current_user; the actions below start where
\* the dependency has resolved the bearer token to current_user, a row of
\* users. A query result is a set of rows (the queries give no order).
Date(year, month, day) == [year |-> year, month |-> month, day |-> day]

OwnedBy(user, cdb) == {c \in cdb.rows : c.user_id = user.id}

get_contacts(cdb, user) == OwnedBy(user, cdb)

\* .first() of the rows with this id and this owner; id is the primary key
get_contact(contact_id, user, cdb) ==
    LET found == {c \in cdb.rows : c.user_id = user.id /\ c.id = contact_id}
    IN IF found = {} THEN None ELSE CHOOSE c \in found : TRUE

\* contacts.email and contacts.phone_num are unique over the whole table
UniqueViolation(contact, cdb) ==
    \E c \in cdb.rows :
        /\ c.id # contact.id
        /\ (c.email = contact.email \/ c.phone_num = contact.phone_num)

repo_create_contact(body, user, cdb) ==
    LET contact == [id |-> cdb.last_id + 1, first_name |-> body.first_name,
                    last_name |-> body.last_name, email |-> body.email,
                    phone_num |-> body.phone_num, birthday |-> body.birthday,
                    user_id |-> user.id]
    IN IF UniqueViolation(contact, cdb)
       THEN [ok |-> FALSE, cdb |-> cdb, contact |-> None]
       ELSE [ok |-> TRUE, contact |-> contact,
             cdb |-> [rows |-> cdb.rows \cup {contact}, last_id |-> contact.id]]

\* update_contact with the filter on the id alone
update_contact_any(contact_id, body, user, cdb) ==
    LET found == {c \in cdb.rows : c.id = contact_id}
    IN IF found = {} THEN [ok |-> TRUE, cdb |-> cdb, contact |-> None]
       ELSE LET contact == CHOOSE c \in found : TRUE
                updated == [contact EXCEPT !.email = body.email,
                                           !.phone_num = body.phone_num]
            IN IF UniqueViolation(updated, cdb)
               THEN [ok |-> FALSE, cdb |-> cdb, contact |-> None]
               ELSE [ok |-> TRUE, contact |-> updated,
                     cdb |-> [cdb EXCEPT !.rows = (cdb.rows \ {contact}) \cup {updated}]]

update_contact(contact_id, body, user, cdb) ==
    LET contact == get_contact(contact_id, user, cdb)
    IN IF contact = None THEN [ok |-> TRUE, cdb |-> cdb, contact |-> None]
       ELSE LET updated == [contact EXCEPT !.email = body.email,
                                           !.phone_num = body.phone_num]
            IN IF UniqueViolation(updated, cdb)
               THEN [ok |-> FALSE, cdb |-> cdb, contact |-> None]
               ELSE [ok |-> TRUE, contact |-> updated,
                     cdb |-> [cdb EXCEPT !.rows = (cdb.rows \ {contact}) \cup {updated}]]

repo_delete_contact(contact_id, user, cdb) ==
    LET contact == get_contact(contact_id, user, cdb)
    IN IF contact = None THEN [cdb |-> cdb, contact |-> None]
       ELSE [cdb |-> [cdb EXCEPT !.rows = cdb.rows \ {contact}], contact |-> contact]

\* column ILIKE '%query%' over the strings of the model: the pairs that match
ILikePairs ==
    {<<"Ann", "ann">>, <<"k@x.com", "X.COM">>, <<"m@x.com", "X.COM">>}
ILike(column, query) == <<column, query>> \in ILikePairs

find_contact(query, user, cdb) ==
    {c \in cdb.rows :
        /\ c.user_id = user.id
        /\ (ILike(c.first_name, query) \/ ILike(c.last_name, query)
            \/ ILike(c.email, query))}

\* the routes
ContactResult(cdb, status, detail, returned) ==
    [cdb |-> cdb, status |-> status, detail |-> detail, returned |-> returned]
NotFound(cdb) == ContactResult(cdb, 404, "Contact not found", None)

read_contacts(user, cdb) == ContactResult(cdb, 200, "", get_contacts(cdb, user))

read_contact(contact_id, user, cdb) ==
    LET contact == get_contact(contact_id, user, cdb)
    IN IF contact = None THEN NotFound(cdb) ELSE ContactResult(cdb, 200, "", contact)

create_contact(body, user, cdb) ==
    LET created == repo_create_contact(body, user, cdb)
    IN IF ~created.ok THEN ContactResult(cdb, 500, "IntegrityError", None)
       ELSE ContactResult(created.cdb, 200, "", created.contact)

update_cont(body, contact_id, user, cdb) ==
    LET updated == update_contact(contact_id, body, user, cdb)
    IN IF ~updated.ok THEN ContactResult(cdb, 500, "IntegrityError", None)
       ELSE IF updated.contact = None THEN NotFound(cdb)
       ELSE ContactResult(updated.cdb, 200, "", updated.contact)

delete_contact(contact_id, user, cdb) ==
    LET deleted == repo_delete_contact(contact_id, user, cdb)
    IN IF deleted.contact = None THEN NotFound(cdb)
       ELSE ContactResult(deleted.cdb, 200, "", deleted.contact)

search_contacts(query, user, cdb) ==
    ContactResult(cdb, 200, "", find_contact(query, user, cdb))

\* requests
ContactEmails == {"k@x.com", "m@x.com"}
PhoneNums == {"111", "222"}
FirstNameOf(email) == IF email = "k@x.com" THEN "Ann" ELSE "Bob"
Birthday == Date(1990, 6, 12)
ContactBodies ==
    {[first_name |-> FirstNameOf(e), last_name |-> "Lee", email |-> e,
      phone_num |-> p, birthday |-> Birthday] : e \in ContactEmails, p \in PhoneNums}
ContactUpdates == [email : ContactEmails, phone_num : PhoneNums]
ContactIds == 1..MaxContacts
Queries == {"ann", "X.COM", "zzz"}

\* two registered users
TwoUsers ==
    LET body(e) == [username |-> Username, email |-> e,
                    password |-> hash_password(PasswordOf(e), "salt")]
    IN create_user(body("b@x.com"), create_user(body("a@x.com"), <<>>).db).db
CurrentUsers == {users[i] : i \in 1..Len(users)}

InitContacts ==
    /\ users = [i \in 1..2 |-> [TwoUsers[i] EXCEPT !.confirmed = TRUE]]
    /\ now = 0
    /\ ticks = 0
    /\ issued = {}
    /\ tasks = {}
    /\ resp = Response("none", None, Result(<<>>, 0, ""), 0)
    /\ reqno = 0
    /\ inflight = [p \in Procs |-> Idle]
    /\ contacts = NoContacts

ContactAnswer(op, arg, r) ==
    /\ contacts' = r.cdb
    /\ resp' = [Response(op, arg, Result(users, r.status, r.detail), now)
                EXCEPT !.returned = r.returned]
    /\ reqno' = 1 - reqno
    /\ UNCHANGED <<users, now, ticks, issued, tasks>>

ReadContacts ==
    \E user \in CurrentUsers :
        /\ ContactAnswer("read_contacts", [user_id |-> user.id], read_contacts(user, contacts))
        /\ UNCHANGED inflight

ReadContact ==
    \E user \in CurrentUsers, contact_id \in ContactIds :
        /\ ContactAnswer("read_contact", [user_id |-> user.id, contact_id |-> contact_id],
                         read_contact(contact_id, user, contacts))
        /\ UNCHANGED inflight

CreateContact ==
    \E user \in CurrentUsers, body \in ContactBodies :
        /\ contacts.last_id < MaxContacts
        /\ ContactAnswer("create_contact", [user_id |-> user.id, body |-> body],
                         create_contact(body, user, contacts))
        /\ UNCHANGED inflight

UpdateCont ==
    \E user \in CurrentUsers, contact_id \in ContactIds, body \in ContactUpdates :
        /\ ContactAnswer("update_cont",
                         [user_id |-> user.id, contact_id |-> contact_id, body |-> body],
                         update_cont(body, contact_id, user, contacts))
        /\ UNCHANGED inflight

DeleteContact ==
    \E user \in CurrentUsers, contact_id \in ContactIds :
        /\ ContactAnswer("delete_contact", [user_id |-> user.id, contact_id |-> contact_id],
                         delete_contact(contact_id, user, contacts))
        /\ UNCHANGED inflight

SearchContacts ==
    \E user \in CurrentUsers, query \in Queries :
        /\ ContactAnswer("search_contacts", [user_id |-> user.id, query |-> query],
                         search_contacts(query, user, contacts))
        /\ UNCHANGED inflight

NextContacts ==
    \/ ReadContacts
    \/ ReadContact
    \/ CreateContact
    \/ UpdateCont
    \/ DeleteContact
    \/ SearchContacts

SpecContacts == InitContacts /\ [][NextContacts]_vars

\* ------------------------------------------------------------ the birthdays
\* datetime.date: the proleptic Gregorian calendar
IsLeap(year) == (year % 4 = 0 /\ year % 100 # 0) \/ year % 400 = 0
DaysInMonth(year, month) ==
    IF month = 2 THEN (IF IsLeap(year) THEN 29 ELSE 28)
    ELSE IF month \in {4, 6, 9, 11} THEN 30 ELSE 31

NextDay(d) ==
    IF d.day < DaysInMonth(d.year, d.month) THEN Date(d.year, d.month, d.day + 1)
    ELSE IF d.month < 12 THEN Date(d.year, d.month + 1, 1)
    ELSE Date(d.year + 1, 1, 1)

\* date + timedelta(days = n)
RECURSIVE AddDays(_, _)
AddDays(d, n) == IF n = 0 THEN d ELSE AddDays(NextDay(d), n - 1)

\* a <= b on dates
DateLE(a, b) ==
    \/ a.year < b.year
    \/ a.year = b.year /\ a.month < b.month
    \/ a.year = b.year /\ a.month = b.month /\ a.day <= b.day

\* date.replace(year = ...): ValueError when the day does not exist that year
ReplaceYear(d, year) ==
    IF d.day > DaysInMonth(year, d.month)
    THEN [ok |-> FALSE, error |-> "ValueError"]
    ELSE [ok |-> TRUE, date |-> Date(year, d.month, d.day)]

BIRTHDAY_WINDOW == 7

\* the loop replaces the year of every contact of the user; one ValueError
\* ends the call
get_birthdays(user, cdb, today) ==
    LET end == AddDays(today, BIRTHDAY_WINDOW)
        mine == OwnedBy(user, cdb)
    IN IF \E c \in mine : ~ReplaceYear(c.birthday, today.year).ok
       THEN [ok |-> FALSE, error |-> "ValueError", contacts |-> {}]
       ELSE [ok |-> TRUE, contacts |->
                {c \in mine :
                    LET contact_birthday == ReplaceYear(c.birthday, today.year).date
                    IN DateLE(today, contact_birthday) /\ DateLE(contact_birthday, end)}]

get_birth(user, cdb, today) ==
    LET birthday == get_birthdays(user, cdb, today)
    IN IF ~birthday.ok THEN ContactResult(cdb, 500, birthday.error, None)
       ELSE ContactResult(cdb, 200, "", birthday.contacts)

\* inputs: the current date, and tables of two contacts with these birthdays
Todays == {Date(2023, 6, 10), Date(2023, 2, 25), Date(2024, 2, 25), Date(2023, 12, 28)}
Birthdays == {Date(1990, 6, 12), Date(1990, 6, 18), Date(2000, 2, 29),
              Date(1990, 3, 3), Date(1990, 1, 2)}
BirthdayBody(email, phone_num, birthday) ==
    [first_name |-> FirstNameOf(email), last_name |-> "Lee", email |-> email,
     phone_num |-> phone_num, birthday |-> birthday]
BirthdayTables ==
    {repo_create_contact(BirthdayBody("m@x.com", "222", b2), u2,
        repo_create_contact(BirthdayBody("k@x.com", "111", b1), u1, NoContacts).cdb).cdb :
     b1 \in Birthdays, b2 \in Birthdays,
     u1 \in {TwoUsers[1], TwoUsers[2]}, u2 \in {TwoUsers[1], TwoUsers[2]}}

InitBirthdays ==
    /\ users = [i \in 1..2 |-> [TwoUsers[i] EXCEPT !.confirmed = TRUE]]
    /\ now = 0
    /\ ticks = 0
    /\ issued = {}
    /\ tasks = {}
    /\ resp = Response("none", None, Result(<<>>, 0, ""), 0)
    /\ reqno = 0
    /\ inflight = [p \in Procs |-> Idle]
    /\ contacts \in BirthdayTables

GetBirth ==
    \E user \in CurrentUsers, today \in Todays :
        /\ ContactAnswer("get_birth", [user_id |-> user.id, today |-> today],
                         get_birth(user, contacts, today))
        /\ UNCHANGED inflight

NextBirthdays == GetBirth

SpecBirthdays == InitBirthdays /\ [][NextBirthdays]_vars

\* ================================================================== claims
\* a step that serves one request of the given kind
Served(op) == reqno' # reqno /\ resp'.op = op

Registered(email, db) == get_user_by_email(email, db) # None
Stored(email, db) == get_user_by_email(email, db).refresh_token
HasScope(token, scope) ==
    "scope" \in DOMAIN token.claims /\ token.claims.scope = scope
\* signed with the system's key and not expired at time t
ValidAt(token, t) == jwt_decode(token, SECRET, t).ok
ReturnsTokens(r) == r.access_token # None \/ r.refresh_token # None

\* C1: login never returns an access or refresh token for a user whose
\* confirmed flag is false at the time of the call, and a user who is not
\* confirmed has no stored refresh token.
C1_NoTokensForUnconfirmed ==
    /\ [](\A i \in 1..Len(users) :
            ~users[i].confirmed => users[i].refresh_token = None)
    /\ [][(Served("login") /\ ReturnsTokens(resp'))
            => /\ Registered(resp'.arg.username, users)
               /\ get_user_by_email(resp'.arg.username, users).confirmed]_vars

\* a login with the right password was refused because the account is not
\* confirmed, and the account holds no refresh token
C1_Witness ==
    /\ resp.op = "login"
    /\ resp.status = 401
    /\ resp.detail = "Email not confirmed"
    /\ Registered(resp.arg.username, users)
    /\ verify_password(resp.arg.password,
                       get_user_by_email(resp.arg.username, users).password)
    /\ Stored(resp.arg.username, users) = None

\* C2: refresh rotation is single use: when refresh(T) has just succeeded,
\* the next refresh(T) fails with 401 and leaves the stored token null.
C2_RefreshSingleUse ==
    [][(resp.op = "refresh_token" /\ resp.status = 200
        /\ Served("refresh_token") /\ resp'.arg = resp.arg)
       => /\ resp'.status = 401
          /\ Stored(resp'.arg.claims.sub, users') = None]_vars

\* a worker's request ended with a token pair other than the one presented
Rotated(w) ==
    /\ w.pc = "done"
    /\ w.result.status = 200
    /\ w.result.refresh_token # w.token

\* C3: of two parallel refresh requests that present the same stored token,
\* at most one ends with a new token pair.
C3_AtMostOneRotation ==
    \A p \in Procs, q \in Procs :
        (p # q /\ inflight[p].token = inflight[q].token)
            => ~(Rotated(inflight[p]) /\ Rotated(inflight[q]))

\* C4: get_current_user answers 401 and returns no user for every validly
\* signed, unexpired token of the system that is not an access token.
C4_NonAccessTokenUnauthorized ==
    (/\ resp.op = "read_users_me"
     /\ ValidAt(resp.arg, resp.at)
     /\ ~HasScope(resp.arg, "access_token"))
        => (resp.status = 401 /\ resp.user = None)

\* C5: a refresh with a validly signed, unexpired refresh token of a registered
\* user that is not that user's stored token (the stored one may be null)
\* fails with 401 and leaves the stored token null.
C5_MismatchRevokes ==
    [][(/\ Served("refresh_token")
        /\ ValidAt(resp'.arg, now)
        /\ HasScope(resp'.arg, "refresh_token")
        /\ Registered(resp'.arg.claims.sub, users)
        /\ Stored(resp'.arg.claims.sub, users) # resp'.arg)
       => /\ resp'.status = 401
          /\ ~ReturnsTokens(resp')
          /\ Stored(resp'.arg.claims.sub, users') = None]_vars

\* a stale refresh token was presented while a different one had been issued
\* to the same user: the request was refused and the user holds no token
C5_Witness ==
    /\ resp.op = "refresh_token"
    /\ resp.status = 401
    /\ resp.detail = "Invalid refresh token"
    /\ HasScope(resp.arg, "refresh_token")
    /\ Stored(resp.arg.claims.sub, users) = None
    /\ \E t \in issued : /\ HasScope(t, "refresh_token")
                         /\ t.claims.sub = resp.arg.claims.sub
                         /\ t.claims.iat > resp.arg.claims.iat

\* C6: after a successful refresh the stored token is the returned one, it
\* differs from the presented one, and the presented one is refused.
C6_RotationReplacesToken ==
    [][(Served("refresh_token") /\ resp'.status = 200)
       => /\ Stored(resp'.arg.claims.sub, users') = resp'.refresh_token
          /\ resp'.refresh_token # resp'.arg
          /\ refresh_token(resp'.arg, users', now).status = 401]_vars

\* C7: after a successful login the stored token is the returned one and
\* every refresh token the user obtained before is refused by refresh.
C7_SingleSession ==
    [][(Served("login") /\ resp'.status = 200)
       => /\ Stored(resp'.arg.username, users') = resp'.refresh_token
          /\ \A t \in issued :
                (HasScope(t, "refresh_token") /\ t.claims.sub = resp'.arg.username)
                    => refresh_token(t, users', now).status = 401]_vars

\* which of the cases of login a form falls in
LoginCase(form, db) ==
    LET user == get_user_by_email(form.username, db)
    IN IF user = None THEN "unknown email"
       ELSE IF user.confirmed
            THEN IF verify_password(form.password, user.password)
                 THEN "ok" ELSE "wrong password"
            ELSE IF verify_password(form.password, user.password)
                 THEN "unconfirmed" ELSE "unconfirmed, wrong password"
Rejections == {"unknown email", "wrong password", "unconfirmed"}

\* C8: login answers 401 without tokens for an unknown email, for a wrong
\* password of a confirmed account and for the right password of an
\* unconfirmed account; the status is the same and the details differ.
C8_LoginRejections ==
    /\ [][(Served("login") /\ LoginCase(resp'.arg, users) \in Rejections)
            => (resp'.status = 401 /\ ~ReturnsTokens(resp'))]_vars
    /\ [](\A f \in Forms, g \in Forms :
            LET cf == LoginCase(f, users)
                cg == LoginCase(g, users)
            IN (cf \in Rejections /\ cg \in Rejections /\ cf # cg)
                  => /\ login(f, users, now).status = login(g, users, now).status
                     /\ login(f, users, now).detail # login(g, users, now).detail)

\* a wrong password was refused while another form falls in another case
C8_Witness ==
    /\ resp.op = "login"
    /\ resp.status = 401
    /\ LoginCase(resp.arg, users) = "wrong password"
    /\ \E g \in Forms : LoginCase(g, users) \in Rejections \ {"wrong password"}

\* C9: signup of a well-formed body with a new email, confirmation with the
\* verification token and login with the same credentials succeed; the access
\* token has the email as subject and get_current_user resolves it to the
\* user registered under that email.
C9_SignupConfirmLogin ==
    [][/\ (/\ Served("signup")
           /\ ValidUserModel(resp'.arg)
           /\ ~Registered(resp'.arg.email, users))
          => /\ resp'.status = 201
             /\ Registered(resp'.arg.email, users')
             /\ verify_password(resp'.arg.password,
                                get_user_by_email(resp'.arg.email, users').password)
             /\ \E task \in tasks' : task.email = resp'.arg.email
       /\ (/\ Served("confirmed_email")
           /\ ValidAt(resp'.arg, now)
           /\ Registered(resp'.arg.claims.sub, users))
          => /\ resp'.status = 200
             /\ get_user_by_email(resp'.arg.claims.sub, users').confirmed
       /\ (Served("login") /\ LoginCase(resp'.arg, users) = "ok")
          => /\ resp'.status = 200
             /\ HasScope(resp'.access_token, "access_token")
             /\ resp'.access_token.claims.sub = resp'.arg.username
             /\ ValidAt(resp'.access_token, now)
       /\ (/\ Served("read_users_me")
           /\ ValidAt(resp'.arg, now)
           /\ HasScope(resp'.arg, "access_token"))
          => /\ resp'.status = 200
             /\ resp'.user = get_user_by_email(resp'.arg.claims.sub, users)
             /\ resp'.user.email = resp'.arg.claims.sub]_vars

\* an access token handed out by login resolved to its user, who registered
\* with the password of the sequence and is confirmed
C9_Witness ==
    /\ resp.op = "read_users_me"
    /\ resp.status = 200
    /\ resp.arg \in issued
    /\ resp.user.email = resp.arg.claims.sub
    /\ resp.user.confirmed
    /\ verify_password(PasswordOf(resp.user.email), resp.user.password)

\* C10: signup (of a well-formed body) with a registered email answers 409,
\* creates no user and schedules no verification email; with a new email it
\* appends exactly one user, unconfirmed and without a refresh token.
C10_SignupConflict ==
    [][/\ (/\ Served("signup")
           /\ ValidUserModel(resp'.arg)
           /\ Registered(resp'.arg.email, users))
          => /\ resp'.status = 409
             /\ users' = users
             /\ tasks' = tasks
             /\ issued' = issued
       /\ (/\ Served("signup")
           /\ ValidUserModel(resp'.arg)
           /\ ~Registered(resp'.arg.email, users))
          => /\ Len(users') = Len(users) + 1
             /\ SubSeq(users', 1, Len(users)) = users
             /\ users'[Len(users')].email = resp'.arg.email
             /\ users'[Len(users')].confirmed = FALSE
             /\ users'[Len(users')].refresh_token = None]_vars

\* a second signup with a registered email was answered 409 and the table
\* holds one row for it
C10_Witness ==
    /\ resp.op = "signup"
    /\ resp.status = 409
    /\ Cardinality({i \in 1..Len(users) : users[i].email = resp.arg.email}) = 1

\* C11: user emails are unique: in every reachable state, also after every
\* interleaving of signup requests for the same email that each look the
\* email up and then insert, at most one row of users holds a given email.
C11_UniqueEmail ==
    \A i, j \in 1..Len(users) : users[i].email = users[j].email => i = j

\* two requests for one email both passed the lookup; the second INSERT failed
C11_Witness ==
    /\ resp.op = "signup" /\ resp.status = 500 /\ resp.detail = "IntegrityError"
    /\ Cardinality({i \in 1..Len(users) : users[i].email = resp.arg.email}) = 1

\* C12: confirming an email is idempotent: with a valid token of a registered
\* user the first call sets confirmed and answers "Email confirmed"; a call
\* for a user who is already confirmed succeeds with the distinct message
\* "Your email is already confirmed" and changes no field of any user; the
\* users after two calls are the users after one.
C12_ConfirmIdempotent ==
    /\ [][(/\ Served("confirmed_email")
           /\ ValidAt(resp'.arg, now)
           /\ Registered(resp'.arg.claims.sub, users))
          => LET user == get_user_by_email(resp'.arg.claims.sub, users)
             IN /\ resp'.status = 200
                /\ IF user.confirmed
                   THEN /\ resp'.message = "Your email is already confirmed"
                        /\ users' = users
                   ELSE /\ resp'.message = "Email confirmed"
                        /\ users' = [users EXCEPT ![user.id].confirmed = TRUE]]_vars
    /\ [](\A token \in Presentable :
            LET once == confirmed_email(token, users, now)
                twice == confirmed_email(token, once.db, now)
            IN once.status = 200
               => /\ twice.status = 200
                  /\ twice.message = "Your email is already confirmed"
                  /\ twice.db = once.db)

\* a second confirmation was answered for a user who is confirmed
C12_Witness ==
    /\ resp.op = "confirmed_email"
    /\ resp.status = 200
    /\ resp.message = "Your email is already confirmed"
    /\ get_user_by_email(resp.arg.claims.sub, users).confirmed

\* C13: every token-validation failure produces the same user-visible
\* response: for any two tokens an endpoint rejects (bad signature, expired,
\* wrong scope, unknown subject, refresh token other than the stored one),
\* the status and the detail that resolving the current user, refresh and
\* confirming an email return are the same, whichever check failed.
Rejected(r) == r.status >= 400
SameRejection(r1, r2) ==
    (Rejected(r1) /\ Rejected(r2)) => (r1.status = r2.status /\ r1.detail = r2.detail)
C13_UniformRejection ==
    \A t1, t2 \in Presentable :
        /\ SameRejection(read_users_me(t1, users, now), read_users_me(t2, users, now))
        /\ SameRejection(refresh_token(t1, users, now), refresh_token(t2, users, now))
        /\ SameRejection(confirmed_email(t1, users, now), confirmed_email(t2, users, now))

\* C14: every token the issuer creates carries a scope tag matching its
\* kind: a token returned as access token has scope access_token, one
\* returned as refresh token has scope refresh_token, and every token handed
\* out, the mailed verification token included, carries a scope tag.
C14_ScopeMatchesKind ==
    /\ \A token \in issued : "scope" \in DOMAIN token.claims
    /\ resp.access_token # None => HasScope(resp.access_token, "access_token")
    /\ resp.refresh_token # None => HasScope(resp.refresh_token, "refresh_token")

Lifetime(token) == token.claims.exp - token.claims.iat
C16_TokenLifetime ==
    /\ resp.op = "create_access_token"
       => Lifetime(resp.returned) = IF resp.arg.expires_delta = None THEN ACCESS_TTL
                                 ELSE resp.arg.expires_delta.seconds
    /\ resp.op = "create_refresh_token"
       => Lifetime(resp.returned) = IF resp.arg.expires_delta = None THEN REFRESH_TTL
                                 ELSE resp.arg.expires_delta.seconds
    /\ resp.op = "create_email_token" => Lifetime(resp.returned) = EMAIL_TTL
    /\ (resp.op = "consume" /\ resp.returned.claims.exp < resp.at) => resp.status >= 400

\* C17: contact ownership isolation: reading, updating or deleting by id, as
\* user A, a contact that user B owns is answered not found and leaves the
\* contacts unchanged; these operations never change a contact of another
\* user; listing and searching as A return only contacts A owns.
OthersRows(user_id, cdb) == {c \in cdb.rows : c.user_id # user_id}
ByIdOps == {"read_contact", "update_cont", "delete_contact"}
C17_OwnershipIsolation ==
    /\ [][(/\ reqno' # reqno
           /\ resp'.op \in ByIdOps
           /\ \E c \in contacts.rows :
                  c.id = resp'.arg.contact_id /\ c.user_id # resp'.arg.user_id)
          => (resp'.status = 404 /\ contacts' = contacts)]_vars
    /\ [][(reqno' # reqno /\ resp'.op \in ByIdOps)
          => OthersRows(resp'.arg.user_id, contacts')
                 = OthersRows(resp'.arg.user_id, contacts)]_vars
    /\ [][(Served("read_contacts") \/ Served("search_contacts"))
          => \A c \in resp'.returned :
                 c \in contacts.rows /\ c.user_id = resp'.arg.user_id]_vars

\* an update by id of a contact of the other user was answered not found
\* while both users own a contact
C17_Witness ==
    /\ resp.op = "update_cont" /\ resp.status = 404
    /\ \E c \in contacts.rows :
           c.id = resp.arg.contact_id /\ c.user_id # resp.arg.user_id
    /\ \E c \in contacts.rows : c.user_id = resp.arg.user_id

\* C18: the upcoming birthdays of a user are exactly the user's contacts
\* whose birthday anniversary (month and day) falls on one of the days
\* today .. today + 7, for every current date and every birthday, also when
\* the days run over the end of the year and when the birthday is 29 February.
Anniversary(birthday, d) == birthday.month = d.month /\ birthday.day = d.day
Upcoming(user_id, cdb, today) ==
    {c \in cdb.rows :
        /\ c.user_id = user_id
        /\ \E n \in 0..BIRTHDAY_WINDOW : Anniversary(c.birthday, AddDays(today, n))}
C18_UpcomingBirthdays ==
    resp.op = "get_birth"
    => /\ resp.status = 200
       /\ resp.returned = Upcoming(resp.arg.user_id, contacts, resp.arg.today)

\* C19: each user's stored refresh token is null or a refresh-scope token
\* handed out by the system whose subject is that user's email and which is
\* the most recent refresh token issued to that user; it is never a token of
\* another user, an access token or an email-verification token.
IssuedRefresh(email) ==
    {token \in issued : HasScope(token, "refresh_token") /\ token.claims.sub = email}
C19_StoredTokenIsOwnLatest ==
    \A i \in 1..Len(users) :
        LET stored == users[i].refresh_token
        IN stored # None
           => /\ stored \in IssuedRefresh(users[i].email)
              /\ \A token \in IssuedRefresh(users[i].email) :
                     token.claims.iat <= stored.claims.iat

\* both users hold a stored token, and one of them was issued an earlier
\* refresh token that the stored one replaced
C19_Witness ==
    /\ Len(users) = 2
    /\ \A i \in 1..Len(users) : users[i].refresh_token # None
    /\ \E i \in 1..Len(users) : \E token \in IssuedRefresh(users[i].email) :
           token.claims.iat < users[i].refresh_token.claims.iat

\* C20: failed operations leave the users unchanged: every failing signup,
\* login, current-user resolution and email confirmation, and every refresh
\* that fails at decoding, leaves every user's email, password hash,
\* confirmed flag and stored refresh token as they were; a refresh that fails
\* with a decodable token other than the stored one changes only the stored
\* refresh token of the token's subject.
AuthOps == {"signup", "login", "read_users_me", "confirmed_email", "refresh_token"}
C20_FailuresLeaveUsers ==
    [][(reqno' # reqno /\ resp'.op \in AuthOps /\ resp'.status >= 400)
       => IF resp'.op = "refresh_token" /\ decode_refresh_token(resp'.arg, now).ok
          THEN LET user == get_user_by_email(resp'.arg.claims.sub, users)
               IN users' = [users EXCEPT ![user.id].refresh_token = None]
          ELSE users' = users]_vars

\* a refresh failed on a token other than the stored one: the subject's
\* stored token is cleared and the other user's stored token stands
C20_Witness ==
    /\ resp.op = "refresh_token" /\ resp.status = 401
    /\ resp.detail = "Invalid refresh token"
    /\ Stored(resp.arg.claims.sub, users) = None
    /\ \E i \in 1..Len(users) : users[i].refresh_token # None

\* C21: revocation does not reach access tokens: whatever has happened to a
\* user's stored refresh token since (cleared by a mismatching refresh,
\* replaced by a later login or refresh), every access token handed out for
\* that user that has not expired is accepted by get_current_user and
\* resolves to that user's row; a request presenting it is answered with it.
IssuedAccess == {token \in issued : HasScope(token, "access_token")}
C21_RevocationSparesAccess ==
    /\ [](\A token \in IssuedAccess :
            token.claims.exp >= now
            => LET r == get_current_user(token, users, now)
               IN /\ r.status = 200
                  /\ r.user = get_user_by_email(token.claims.sub, users)
                  /\ r.user.email = token.claims.sub)
    /\ [][(/\ Served("read_users_me")
           /\ resp'.arg \in IssuedAccess
           /\ resp'.arg.claims.exp >= now)
          => /\ resp'.status = 200
             /\ resp'.user = get_user_by_email(resp'.arg.claims.sub, users)
             /\ users' = users]_vars

\* an access token was accepted for a user whose stored refresh token a
\* mismatching refresh has cleared
C21_Witness ==
    /\ resp.op = "read_users_me" /\ resp.status = 200
    /\ resp.user.email = resp.arg.claims.sub
    /\ Stored(resp.arg.claims.sub, users) = None

====
